---- MODULE Spec2Model ----
(***************************************************************************)
(* BookingsStore (src/app/features/bookings/data-access/bookings.store.ts) *)
(* as a state machine: the signal's snapshot, the browser's timers, the    *)
(* requests in flight at BookingsApi and the backend they reach.           *)
(***************************************************************************)
EXTENDS Bags, FiniteSets, Integers, Sequences, TLC

VARIABLES
    st,         \* the value of the `state` signal (BookingsState)
    storage,    \* localStorage[UI_STATE_KEY]: <<>> when absent, else <<blob>>
    timers,     \* ids of the window.setTimeout timers that are still live
    nextTimer,  \* the id the next window.setTimeout returns
    inflight,   \* bag of BookingsApi requests whose observable has not completed
    db,         \* the backend's bookings, in insertion order
    nextId,     \* the id the backend assigns to the next created booking
    calls,      \* number of public store methods the behaviour may still call
    ev          \* the step that produced this state

vars == <<st, storage, timers, nextTimer, inflight, db, nextId, calls, ev>>

----------------------------------------------------------------------------
(* Bounds *)

\* public store methods called in one behaviour of Spec
MaxCalls == 3
\* public store methods called in one behaviour of SpecData
MaxDataCalls == 4
\* public store methods called in one behaviour of SpecTimer
MaxTimerCalls == 3
\* public store methods called in one behaviour of SpecUndo
MaxUndoCalls == 7
\* public store methods called in one behaviour of SpecReload
MaxReloadCalls == 5
\* public store methods called in one behaviour of SpecPaging
MaxPagingCalls == 4
\* public store methods called in one behaviour of SpecRestore
MaxRestoreCalls == 2
\* public store methods called in one behaviour of SpecDeletes
MaxDeleteCalls == 4

----------------------------------------------------------------------------
(* Values *)

Null == "null"

InitialPageSize == 10

Filters == {"ALL", "NEW", "CONFIRMED"}
SortKeys == {"SCHEDULED_AT", "TOTAL"}
PageSizes == {1, 2}
\* the 1-based page numbers setPage is called with
Pages == {1, 3}
\* text is a sequence of characters
Queries == {<<>>, <<"m", "a">>}

SeedBooking(i) ==
    [id |-> i,
     customerName |-> IF i = 1 THEN <<"A", "l">> ELSE <<"M", "a", "y">>,
     address |-> IF i = 1 THEN <<"M", "a", "i", "n">> ELSE <<"E", "l", "m">>,
     scheduledAtIso |-> IF i = 1 THEN "2026-01-02T10:00:00.000Z" ELSE "2026-01-01T10:00:00.000Z",
     status |-> "NEW", totalCad |-> 100 * i, paid |-> FALSE]

\* the bookings the backend holds when the store is constructed
Seeds == <<SeedBooking(1), SeedBooking(2)>>
DataSeeds == <<SeedBooking(1)>>

\* what BookingCreatePage.submit hands to create()
Drafts ==
    {[customerName |-> <<"B", "o">>, address |-> <<"E", "l", "m">>,
      scheduledAtIso |-> "not a date", totalCad |-> 180, paid |-> FALSE]}

\* what an observable's error channel carries: an Error with a message, or
\* something that is not an Error
NoErr == [isError |-> FALSE, message |-> ""]
Errs == {[isError |-> TRUE, message |-> "network error"], NoErr}

ErrMsg(err, dflt) == IF err.isError THEN err.message ELSE dflt

initialState ==
    [filter |-> "ALL", page |-> 1, pageSize |-> InitialPageSize,
     sortKey |-> "SCHEDULED_AT", sortDir |-> "DESC", query |-> <<>>,
     serverItems |-> <<>>, localItems |-> <<>>, pendingDelete |-> <<>>,
     loading |-> FALSE, error |-> Null]

----------------------------------------------------------------------------
(* Array helpers *)

Min(S) == CHOOSE x \in S : \A y \in S : x <= y

IdsOf(seq) == {seq[i].id : i \in DOMAIN seq}

\* Array.prototype.some((b) => b.id === id)
SomeId(seq, id) == \E i \in DOMAIN seq : seq[i].id = id

\* Array.prototype.filter((b) => b.id !== id)
WithoutId(seq, id) == SelectSeq(seq, LAMBDA b : b.id # id)

\* Array.prototype.find((b) => b.id === id): <<>> for undefined
FindId(seq, id) ==
    LET hits == {i \in DOMAIN seq : seq[i].id = id}
    IN  IF hits = {} THEN <<>> ELSE <<seq[Min(hits)]>>

\* Array.prototype.map((b) => (b.id === id ? { ...b, status: 'CONFIRMED' } : b))
MarkConfirmed(seq, id) ==
    [i \in DOMAIN seq |->
        IF seq[i].id = id THEN [seq[i] EXCEPT !.status = "CONFIRMED"] ELSE seq[i]]

\* Array.prototype.map((b) => (b.id === id ? updated : b))
ReplaceId(seq, id, updated) ==
    [i \in DOMAIN seq |-> IF seq[i].id = id THEN updated ELSE seq[i]]

Items(s) == s.localItems \o s.serverItems

----------------------------------------------------------------------------
(* Persistence: localStorage holds a JSON text.  A JSON value is modelled  *)
(* by its type tag and its value, a text that does not parse by "garbage". *)

JString(v) == [t |-> "string", v |-> v]
JNumber(n) == [t |-> "number", v |-> n]

\* JSON.stringify(ui) of saveUiState
UiJson(s) ==
    [json |-> "object",
     filter |-> JString(s.filter), sortKey |-> JString(s.sortKey),
     sortDir |-> JString(s.sortDir), pageSize |-> JNumber(s.pageSize),
     query |-> JString(s.query)]

SaveUiState(s) == <<UiJson(s)>>

IsOneOf(x, S) == x.t = "string" /\ x.v \in S

\* a property the parsed value does not have reads as undefined
JMissing == [t |-> "undefined", v |-> 0]

Blob(json, filter, sortKey, sortDir, pageSize, query) ==
    [json |-> json, filter |-> filter, sortKey |-> sortKey, sortDir |-> sortDir,
     pageSize |-> pageSize, query |-> query]

\* a text that is not JSON ("garbage"), the JSON null, or a JSON number: none
\* has a property
NotAnObject(json) == Blob(json, JMissing, JMissing, JMissing, JMissing, JMissing)

\* faulty variant: one invalid field makes the restore give up altogether
LoadUiStateAllOrNothing(s, raw) ==
    IF raw = <<>> THEN s
    ELSE IF raw[1].json \in {"garbage", "null"} THEN s
    ELSE LET ui == raw[1]
         IN  IF /\ IsOneOf(ui.filter, {"NEW", "CONFIRMED", "ALL"})
                /\ IsOneOf(ui.sortKey, {"TOTAL", "SCHEDULED_AT"})
                /\ IsOneOf(ui.sortDir, {"ASC", "DESC"})
                /\ ui.pageSize.t = "number" /\ ui.pageSize.v > 0
                /\ ui.query.t = "string"
             THEN [s EXCEPT !.filter = ui.filter.v, !.sortKey = ui.sortKey.v,
                            !.sortDir = ui.sortDir.v, !.pageSize = ui.pageSize.v,
                            !.query = ui.query.v, !.page = 1]
             ELSE s

\* loadUiState: raw is localStorage.getItem(UI_STATE_KEY), <<>> for null.
\* JSON.parse throws on a text that is not JSON, and reading a property of
\* null throws; the catch block leaves the state as it is.
LoadUiState(s, raw) ==
    IF raw = <<>> THEN s
    ELSE IF raw[1].json \in {"garbage", "null"} THEN s
    ELSE LET ui == raw[1]
         IN  [s EXCEPT
                !.filter = IF IsOneOf(ui.filter, {"NEW", "CONFIRMED", "ALL"}) THEN ui.filter.v ELSE @,
                !.sortKey = IF IsOneOf(ui.sortKey, {"TOTAL", "SCHEDULED_AT"}) THEN ui.sortKey.v ELSE @,
                !.sortDir = IF IsOneOf(ui.sortDir, {"ASC", "DESC"}) THEN ui.sortDir.v ELSE @,
                !.pageSize = IF ui.pageSize.t = "number" /\ ui.pageSize.v > 0 THEN ui.pageSize.v ELSE @,
                !.query = IF ui.query.t = "string" THEN ui.query.v ELSE @,
                !.page = 1]

\* what an earlier session has left in localStorage: nothing, or the
\* preferences it saved
SavedUi ==
    SaveUiState([initialState EXCEPT !.filter = "NEW", !.sortKey = "TOTAL",
                                     !.sortDir = "ASC", !.pageSize = 1])

PersistedUi == {<<>>, SavedUi}

\* what localStorage can hold under UI_STATE_KEY when the store is
\* constructed: nothing, a text that does not parse, a JSON value that is not
\* an object, or an object whose fields are each valid, invalid or missing
StoredFilter(i) ==
    CASE i = 1 -> JString("NEW") [] i = 2 -> JString("OLD") [] i = 3 -> JNumber(1)
      [] OTHER -> JMissing

StoredSortKey(i) ==
    CASE i = 1 -> JString("TOTAL") [] i = 2 -> JString("NAME") [] OTHER -> JMissing

StoredSortDir(i) ==
    CASE i = 1 -> JString("ASC") [] i = 2 -> JString("asc") [] OTHER -> JMissing

StoredPageSize(i) ==
    CASE i = 1 -> JNumber(2) [] i = 2 -> JNumber(0) [] i = 3 -> JNumber(-1)
      [] i = 4 -> JString("2") [] OTHER -> JMissing

StoredQuery(i) ==
    CASE i = 1 -> JString(<<"m", "a">>) [] i = 2 -> JNumber(5) [] OTHER -> JMissing

\* one choice per field
StoredChoices == (1..4) \X (1..3) \X (1..3) \X (1..5) \X (1..3)

StoredObject(c) ==
    <<Blob("object", StoredFilter(c[1]), StoredSortKey(c[2]), StoredSortDir(c[3]),
           StoredPageSize(c[4]), StoredQuery(c[5]))>>

StoredOther == {<<>>} \cup {<<NotAnObject(j)>> : j \in {"garbage", "null", "number"}}

----------------------------------------------------------------------------
(* Derived views *)

\* String.prototype.toLowerCase, on the characters the model uses
LowerChar(c) ==
    CASE c = "A" -> "a" [] c = "B" -> "b" [] c = "E" -> "e" [] c = "M" -> "m"
      [] OTHER -> c

ToLowerCase(text) == [i \in DOMAIN text |-> LowerChar(text[i])]

\* String.prototype.trim
Trim(text) ==
    LET solid == {i \in DOMAIN text : text[i] # " "}
    IN  IF solid = {} THEN <<>>
        ELSE SubSeq(text, Min(solid), CHOOSE m \in solid : \A j \in solid : j <= m)

\* String.prototype.includes
Includes(hay, needle) ==
    \E i \in 0..(Len(hay) - Len(needle)) : SubSeq(hay, i + 1, i + Len(needle)) = needle

VisibleItems(s) ==
    LET f == s.filter
        q == ToLowerCase(Trim(s.query))
        all == s.localItems \o s.serverItems
        filtered == IF f = "ALL" THEN all ELSE SelectSeq(all, LAMBDA b : b.status = f)
    IN  IF q = <<>> THEN filtered
        ELSE SelectSeq(filtered,
                 LAMBDA b : Includes(ToLowerCase(b.customerName \o <<" ">> \o b.address), q))

\* Date.parse(iso) || 0, in minutes since the epoch; an unparsable text is NaN
DateParse(iso) ==
    CASE iso = "2026-01-01T10:00:00.000Z" -> 29453400
      [] iso = "2026-01-02T10:00:00.000Z" -> 29454840
      [] OTHER -> 0

SortValue(b, key) == IF key = "TOTAL" THEN b.totalCad ELSE DateParse(b.scheduledAtIso)

\* the comparator of sortedVisibleItems
Compare(a, b, key, dir) ==
    IF dir = "ASC" THEN SortValue(a, key) - SortValue(b, key)
    ELSE SortValue(b, key) - SortValue(a, key)

\* Array.prototype.sort is stable: x goes after every element that does not
\* compare greater than it
InsertSorted(sorted, x, key, dir) ==
    LET after == {i \in DOMAIN sorted : Compare(sorted[i], x, key, dir) > 0}
        at == IF after = {} THEN Len(sorted) + 1 ELSE Min(after)
    IN  SubSeq(sorted, 1, at - 1) \o <<x>> \o SubSeq(sorted, at, Len(sorted))

RECURSIVE SortBy(_, _, _)
SortBy(seq, key, dir) ==
    IF seq = <<>> THEN <<>>
    ELSE InsertSorted(SortBy(SubSeq(seq, 1, Len(seq) - 1), key, dir), seq[Len(seq)], key, dir)

SortedVisibleItems(s) == SortBy(VisibleItems(s), s.sortKey, s.sortDir)

\* Math.max(1, Math.ceil(total / pageSize))
TotalPages(s) ==
    LET total == Len(SortedVisibleItems(s))
        ceil == (total + s.pageSize - 1) \div s.pageSize
    IN  IF ceil > 1 THEN ceil ELSE 1

\* faulty variant: the next page is taken without the clamp
NextPageUnclamped(s, totalPages) == [s EXCEPT !.page = @ + 1]

\* nextPage(): Math.min(s.page + 1, totalPages)
NextPageUpdate(s, totalPages) ==
    [s EXCEPT !.page = IF @ + 1 < totalPages THEN @ + 1 ELSE totalPages]

\* prevPage(): Math.max(1, s.page - 1)
PrevPageUpdate(s) == [s EXCEPT !.page = IF @ - 1 > 1 THEN @ - 1 ELSE 1]

\* setPage(page)
SetPageUpdate(s, page) == [s EXCEPT !.page = page]

\* Array.prototype.slice(start, end): a negative index counts from the end,
\* and both indexes are clamped to the array
SliceIndex(k, len) ==
    IF k < 0 THEN (IF len + k > 0 THEN len + k ELSE 0)
    ELSE (IF k < len THEN k ELSE len)

Slice(seq, start, end) ==
    SubSeq(seq, SliceIndex(start, Len(seq)) + 1, SliceIndex(end, Len(seq)))

\* faulty variant: the slice starts one page too far
PagedFromNextPage(s) ==
    LET start == s.page * s.pageSize
    IN  Slice(SortedVisibleItems(s), start, start + s.pageSize)

PagedSortedVisibleItems(s) ==
    LET page == s.page
        size == s.pageSize
        start == (page - 1) * size
    IN  Slice(SortedVisibleItems(s), start, start + size)

\* pageRange: { from, to, total }, all 0 when nothing is visible
PageRange(s) ==
    LET total == Len(SortedVisibleItems(s))
        page == s.page
        size == s.pageSize
        from == (page - 1) * size + 1
        to == IF page * size < total THEN page * size ELSE total
    IN  IF total = 0 THEN [from |-> 0, to |-> 0, total |-> 0]
        ELSE [from |-> from, to |-> to, total |-> total]

\* faulty variant: the statistics are taken over the filtered bookings
CountsOfVisible(s) ==
    LET all == VisibleItems(s)
    IN  [all |-> Len(all),
         new |-> Len(SelectSeq(all, LAMBDA b : b.status = "NEW")),
         confirmed |-> Len(SelectSeq(all, LAMBDA b : b.status = "CONFIRMED"))]

Counts(s) ==
    LET all == s.localItems \o s.serverItems
        newCount == Len(SelectSeq(all, LAMBDA b : b.status = "NEW"))
        confirmedCount == Len(SelectSeq(all, LAMBDA b : b.status = "CONFIRMED"))
    IN  [all |-> Len(all), new |-> newCount, confirmed |-> confirmedCount]

----------------------------------------------------------------------------
(* Requests *)

Req(kind, id, ok, result, err, s0, timerId) ==
    [kind |-> kind, id |-> id, ok |-> ok, result |-> result, err |-> err,
     s0 |-> s0, timerId |-> timerId]

Send(r) == inflight (+) SetToBag({r})
Done(r) == inflight (-) SetToBag({r})
Pending(kind, ok) == {r \in BagToSet(inflight) : r.kind = kind /\ r.ok = ok}

\* op: the method or callback that ran; id: its booking (or timer) id, 0 when it
\* has none; req: the request a callback completed; was: the bookings the step
\* took out of items (delete) or out of the pending-delete slot (timer, undo)
Ev(op, id, req, was) == [op |-> op, id |-> id, req |-> req, was |-> was]

\* the step of a method that takes a value: arg is the value it was called with
EvArg(op, arg) == [op |-> op, id |-> 0, req |-> <<>>, was |-> {}, arg |-> arg]

WithId(seq, id) == {seq[i] : i \in {j \in DOMAIN seq : seq[j].id = id}}
PendingBooking(s) == {s.pendingDelete[i].booking : i \in DOMAIN s.pendingDelete}

----------------------------------------------------------------------------
(* The backend behind BookingsApi.  A request is handled when it is sent;  *)
(* its response waits in `inflight` until the observable delivers it.      *)

\* GET /bookings
ApiList(out) ==
    IF out.ok THEN Req("load", 0, TRUE, db, NoErr, <<>>, 0)
    ELSE Req("load", 0, FALSE, <<>>, out.err, <<>>, 0)

\* POST /bookings: the backend assigns the id and the default status
Created(draft) ==
    [id |-> nextId, customerName |-> draft.customerName, address |-> draft.address,
     scheduledAtIso |-> draft.scheduledAtIso, status |-> "NEW",
     totalCad |-> draft.totalCad, paid |-> draft.paid]

ApiCreate(draft, out) ==
    IF out.ok THEN Req("create", nextId, TRUE, <<Created(draft)>>, NoErr, <<>>, 0)
    ELSE Req("create", 0, FALSE, <<>>, out.err, <<>>, 0)

\* PATCH /bookings/{id}/confirm
ApiConfirm(id, out) ==
    IF out.ok THEN Req("confirm", id, TRUE, MarkConfirmed(FindId(db, id), id), NoErr, <<>>, 0)
    ELSE Req("confirm", id, FALSE, <<>>, out.err, <<>>, 0)

\* DELETE /bookings/{id}
ApiDelete(id, out, s0, timerId) ==
    IF out.ok THEN Req("delete", id, TRUE, <<>>, NoErr, <<s0>>, timerId)
    ELSE Req("delete", id, FALSE, <<>>, out.err, <<s0>>, timerId)

\* the outcomes of a request: it succeeds, or it fails with some error; a
\* request for a booking the backend does not hold can only fail
Outcomes(canSucceed) ==
    {[ok |-> FALSE, err |-> e] : e \in Errs}
        \cup (IF canSucceed THEN {[ok |-> TRUE, err |-> NoErr]} ELSE {})

----------------------------------------------------------------------------
(* The snapshot transitions, one per this.state.update(...) of the store *)

\* load(), create(): { ...s, loading: true, error: null }
StartLoading(s) == [s EXCEPT !.loading = TRUE, !.error = Null]

\* faulty variant: the reload replaces the local bookings too
LoadTapReplacesAll(s, serverItems) ==
    [s EXCEPT !.serverItems = serverItems, !.localItems = <<>>, !.loading = FALSE]

\* load() tap
LoadTap(s, serverItems) == [s EXCEPT !.serverItems = serverItems, !.loading = FALSE]

\* faulty variant: a failed load clears the cached bookings
LoadCatchClears(s, err) ==
    [s EXCEPT !.serverItems = <<>>, !.error = ErrMsg(err, "Unknown error"), !.loading = FALSE]

\* load() catchError
LoadCatch(s, err) == [s EXCEPT !.error = ErrMsg(err, "Unknown error"), !.loading = FALSE]

\* faulty variant: the created booking goes to the tail and the page stays
CreateNextAppends(s, created) ==
    [s EXCEPT !.serverItems = Append(@, created), !.loading = FALSE]

\* create() next
CreateNext(s, created) ==
    [s EXCEPT !.serverItems = <<created>> \o @, !.loading = FALSE, !.page = 1]

\* create() error
CreateError(s, err) == [s EXCEPT !.error = ErrMsg(err, "Create failed"), !.loading = FALSE]

\* confirm(): the optimistic update
ConfirmOptimistic(s, id) ==
    [s EXCEPT !.localItems = MarkConfirmed(@, id),
              !.serverItems = MarkConfirmed(@, id),
              !.error = Null]

\* confirm() next
ConfirmNext(s, id, updated) == [s EXCEPT !.serverItems = ReplaceId(@, id, updated)]

\* faulty variant: the failure rolls the optimistic status back
ConfirmErrorRollsBack(s, id, err) ==
    [s EXCEPT !.serverItems =
                 [i \in DOMAIN @ |-> IF @[i].id = id THEN [@[i] EXCEPT !.status = "NEW"] ELSE @[i]],
              !.error = ErrMsg(err, "Confirm failed")]

\* confirm() error
ConfirmError(s, id, err) == [s EXCEPT !.error = ErrMsg(err, "Confirm failed")]

\* delete(): the optimistic remove
DeleteOptimistic(s, id) ==
    [s EXCEPT !.localItems = WithoutId(@, id),
              !.serverItems = WithoutId(@, id),
              !.error = Null]

\* delete(): { ...s, pendingDelete: { booking, timerId } }
SetPending(s, booking, timerId) ==
    [s EXCEPT !.pendingDelete = <<[booking |-> booking, timerId |-> timerId]>>]

\* faulty variant: the rollback forgets to put the bookings back
DeleteCatchKeepsItems(s, s0, err) ==
    [s EXCEPT !.error = ErrMsg(err, "Delete failed"), !.pendingDelete = <<>>]

\* delete() catchError: the rollback.  s is the snapshot current when the
\* callback runs, s0 the one delete() captured when it was called.
DeleteCatch(s, s0, err) ==
    [s0 EXCEPT !.error = ErrMsg(err, "Delete failed"), !.pendingDelete = <<>>]

\* faulty variant: the expiry callback leaves the slot as it is
TimerExpireKeeps(s) == s

\* the setTimeout callback of delete()
TimerExpire(s) == [s EXCEPT !.pendingDelete = <<>>]

\* faulty variant: the booking goes to the tail and the page stays
UndoAppends(s, pd) ==
    [s EXCEPT !.localItems = Append(@, pd.booking), !.pendingDelete = <<>>]

\* undoDelete(), pd = s.pendingDelete non-null
UndoUpdate(s, pd) ==
    [s EXCEPT !.localItems = <<pd.booking>> \o @, !.pendingDelete = <<>>, !.page = 1]

\* faulty variant: the text is added to the query already set
SetQueryAppends(s, query) == [s EXCEPT !.query = @ \o query, !.page = 1]

SetQueryUpdate(s, query) == [s EXCEPT !.query = query, !.page = 1]

\* faulty variant: the direction is DESC whatever the previous key was
SetSortAlwaysDesc(s, sortKey) ==
    [s EXCEPT !.sortKey = sortKey, !.sortDir = "DESC", !.page = 1]

SetSortUpdate(s, sortKey) ==
    LET nextDir == IF s.sortKey = sortKey
                   THEN (IF s.sortDir = "ASC" THEN "DESC" ELSE "ASC")
                   ELSE "DESC"
    IN  [s EXCEPT !.sortKey = sortKey, !.sortDir = nextDir, !.page = 1]

SetPageSizeUpdate(s, pageSize) == [s EXCEPT !.pageSize = pageSize, !.page = 1]

\* faulty variant: the filter changes and the page stays
SetFilterKeepsPage(s, filter) == [s EXCEPT !.filter = filter]

SetFilterUpdate(s, filter) == [s EXCEPT !.filter = filter, !.page = 1]

----------------------------------------------------------------------------
(* Timers *)

\* window.setTimeout returns a fresh id
SetTimeout(live, id) == live \cup {id}

\* clearTimeout(id): a timer that has fired or been cleared is ignored
ClearTimeout(live, id) == live \ {id}

\* delete(): const prev = this.state().pendingDelete; if (prev) clearTimeout(prev.timerId)
ClearPrev(live, prev) == IF prev # <<>> THEN ClearTimeout(live, prev[1].timerId) ELSE live

\* faulty variant: the booking is looked up in both collections
DeleteWasInAny(s0, id) == SomeId(s0.localItems \o s0.serverItems, id)

\* delete(): const wasInServer = s0.serverItems.some((b) => b.id === id)
DeleteWasInServer(s0, id) == SomeId(s0.serverItems, id)

\* confirm(): const wasInServer = this.state().serverItems.some((b) => b.id === id)
ConfirmWasInServer(s, id) == SomeId(s.serverItems, id)

----------------------------------------------------------------------------
(* Initial state: the store right after its constructor has run loadUiState *)

Constructed(raw, seeds, budget) ==
    /\ storage = raw
    /\ st = LoadUiState(initialState, raw)
    /\ timers = {}
    /\ nextTimer = 1
    /\ inflight = EmptyBag
    /\ db = seeds
    /\ nextId = Len(seeds) + 1
    /\ calls = budget
    /\ ev = Ev("init", 0, <<>>, {})

Init == \E raw \in PersistedUi : Constructed(raw, Seeds, MaxCalls)

\* ids a caller can pass: every id the backend has ever assigned
KnownIds == 1..(nextId - 1)

Called == calls > 0 /\ calls' = calls - 1

----------------------------------------------------------------------------
(* Public methods *)

LoadWith(out) ==
    /\ Called
    /\ st' = StartLoading(st)
    /\ inflight' = Send(ApiList(out))
    /\ ev' = Ev("load", 0, <<>>, {})
    /\ UNCHANGED <<storage, timers, nextTimer, db, nextId>>

Load == \E out \in Outcomes(TRUE) : LoadWith(out)

Create(draft) ==
    /\ Called
    /\ st' = StartLoading(st)
    /\ \E out \in Outcomes(TRUE) :
          /\ inflight' = Send(ApiCreate(draft, out))
          /\ db' = IF out.ok THEN Append(db, Created(draft)) ELSE db
          /\ nextId' = IF out.ok THEN nextId + 1 ELSE nextId
    /\ ev' = Ev("create", 0, <<>>, {})
    /\ UNCHANGED <<storage, timers, nextTimer>>

Confirm(id) ==
    LET s1 == ConfirmOptimistic(st, id)
    IN  /\ Called
        /\ st' = s1
        /\ IF ConfirmWasInServer(s1, id)
           THEN \E out \in Outcomes(SomeId(db, id)) :
                   /\ inflight' = Send(ApiConfirm(id, out))
                   /\ db' = IF out.ok THEN MarkConfirmed(db, id) ELSE db
           ELSE UNCHANGED <<inflight, db>>
        /\ ev' = Ev("confirm", id, <<>>, {})
        /\ UNCHANGED <<storage, timers, nextTimer, nextId>>

Delete(id) ==
    LET s0 == st
        wasInServer == DeleteWasInServer(s0, id)
        booking == FindId(s0.localItems \o s0.serverItems, id)
        s1 == DeleteOptimistic(st, id)
        timerId == nextTimer
    IN  /\ Called
        /\ ev' = Ev("delete", id, <<>>, WithId(Items(st), id))
        /\ IF booking = <<>>
           THEN UNCHANGED <<st, timers, nextTimer, inflight, db>>
           ELSE /\ st' = SetPending(s1, booking[1], timerId)
                /\ timers' = SetTimeout(ClearPrev(timers, s1.pendingDelete), timerId)
                /\ nextTimer' = nextTimer + 1
                /\ IF wasInServer
                   THEN \E out \in Outcomes(SomeId(db, id)) :
                           /\ inflight' = Send(ApiDelete(id, out, s0, timerId))
                           /\ db' = IF out.ok THEN WithoutId(db, id) ELSE db
                   ELSE UNCHANGED <<inflight, db>>
        /\ UNCHANGED <<storage, nextId>>

UndoDelete ==
    LET pd == st.pendingDelete
    IN  /\ Called
        /\ ev' = Ev("undoDelete", 0, <<>>, PendingBooking(st))
        /\ IF pd = <<>>
           THEN UNCHANGED <<st, timers>>
           ELSE /\ timers' = ClearTimeout(timers, pd[1].timerId)
                /\ st' = UndoUpdate(st, pd[1])
        /\ UNCHANGED <<storage, nextTimer, inflight, db, nextId>>

SetQuery(query) ==
    /\ Called
    /\ st' = SetQueryUpdate(st, query)
    /\ storage' = SaveUiState(st')
    /\ ev' = EvArg("setQuery", query)
    /\ UNCHANGED <<timers, nextTimer, inflight, db, nextId>>

SetSort(sortKey) ==
    /\ Called
    /\ st' = SetSortUpdate(st, sortKey)
    /\ storage' = SaveUiState(st')
    /\ ev' = EvArg("setSort", sortKey)
    /\ UNCHANGED <<timers, nextTimer, inflight, db, nextId>>

SetPageSize(pageSize) ==
    /\ Called
    /\ st' = SetPageSizeUpdate(st, pageSize)
    /\ storage' = SaveUiState(st')
    /\ ev' = EvArg("setPageSize", pageSize)
    /\ UNCHANGED <<timers, nextTimer, inflight, db, nextId>>

SetFilter(filter) ==
    /\ Called
    /\ st' = SetFilterUpdate(st, filter)
    /\ storage' = SaveUiState(st')
    /\ ev' = EvArg("setFilter", filter)
    /\ UNCHANGED <<timers, nextTimer, inflight, db, nextId>>

SetPage(page) ==
    /\ Called
    /\ st' = SetPageUpdate(st, page)
    /\ ev' = EvArg("setPage", page)
    /\ UNCHANGED <<storage, timers, nextTimer, inflight, db, nextId>>

NextPage ==
    /\ Called
    /\ st' = NextPageUpdate(st, TotalPages(st))
    /\ ev' = Ev("nextPage", 0, <<>>, {})
    /\ UNCHANGED <<storage, timers, nextTimer, inflight, db, nextId>>

PrevPage ==
    /\ Called
    /\ st' = PrevPageUpdate(st)
    /\ ev' = Ev("prevPage", 0, <<>>, {})
    /\ UNCHANGED <<storage, timers, nextTimer, inflight, db, nextId>>

----------------------------------------------------------------------------
(* Completion callbacks and timer expiry *)

Deliver(r, op) ==
    /\ inflight' = Done(r)
    /\ ev' = Ev(op, r.id, <<r>>, {})
    /\ UNCHANGED <<storage, nextTimer, db, nextId, calls>>

LoadSucceeds ==
    \E r \in Pending("load", TRUE) :
        /\ st' = LoadTap(st, r.result)
        /\ Deliver(r, "loadTap")
        /\ UNCHANGED timers

LoadFails ==
    \E r \in Pending("load", FALSE) :
        /\ st' = LoadCatch(st, r.err)
        /\ Deliver(r, "loadCatch")
        /\ UNCHANGED timers

CreateSucceeds ==
    \E r \in Pending("create", TRUE) :
        /\ st' = CreateNext(st, r.result[1])
        /\ Deliver(r, "createNext")
        /\ UNCHANGED timers

CreateFails ==
    \E r \in Pending("create", FALSE) :
        /\ st' = CreateError(st, r.err)
        /\ Deliver(r, "createError")
        /\ UNCHANGED timers

ConfirmSucceeds ==
    \E r \in Pending("confirm", TRUE) :
        /\ st' = ConfirmNext(st, r.id, r.result[1])
        /\ Deliver(r, "confirmNext")
        /\ UNCHANGED timers

ConfirmFails ==
    \E r \in Pending("confirm", FALSE) :
        /\ st' = ConfirmError(st, r.id, r.err)
        /\ Deliver(r, "confirmError")
        /\ UNCHANGED timers

\* no next handler is subscribed: a delete that succeeds changes nothing
DeleteSucceeds ==
    \E r \in Pending("delete", TRUE) :
        /\ Deliver(r, "deleteDone")
        /\ UNCHANGED <<st, timers>>

DeleteFails ==
    \E r \in Pending("delete", FALSE) :
        /\ timers' = ClearTimeout(timers, r.timerId)
        /\ st' = DeleteCatch(st, r.s0[1], r.err)
        /\ Deliver(r, "deleteCatch")

TimerFires ==
    \E t \in timers :
        /\ st' = TimerExpire(st)
        /\ timers' = timers \ {t}
        /\ ev' = Ev("timer", t, <<>>, PendingBooking(st))
        /\ UNCHANGED <<storage, nextTimer, inflight, db, nextId, calls>>

----------------------------------------------------------------------------
(* Specifications *)

Next ==
    \/ Load
    \/ \E d \in Drafts : Create(d)
    \/ \E id \in KnownIds : Confirm(id)
    \/ \E id \in KnownIds : Delete(id)
    \/ UndoDelete
    \/ \E q \in Queries : SetQuery(q)
    \/ \E k \in SortKeys : SetSort(k)
    \/ \E n \in PageSizes : SetPageSize(n)
    \/ \E f \in Filters : SetFilter(f)
    \/ NextPage
    \/ PrevPage
    \/ LoadSucceeds
    \/ LoadFails
    \/ CreateSucceeds
    \/ CreateFails
    \/ ConfirmSucceeds
    \/ ConfirmFails
    \/ DeleteSucceeds
    \/ DeleteFails
    \/ TimerFires

Spec == Init /\ [][Next]_vars

\* the store without its UI-preference setters
InitData == \E raw \in PersistedUi : Constructed(raw, DataSeeds, MaxDataCalls)

NextData ==
    \/ Load
    \/ \E d \in Drafts : Create(d)
    \/ \E id \in KnownIds : Confirm(id)
    \/ \E id \in KnownIds : Delete(id)
    \/ UndoDelete
    \/ LoadSucceeds
    \/ LoadFails
    \/ CreateSucceeds
    \/ CreateFails
    \/ ConfirmSucceeds
    \/ ConfirmFails
    \/ DeleteSucceeds
    \/ DeleteFails
    \/ TimerFires

SpecData == InitData /\ [][NextData]_vars

\* the data operations under the scheduling the browser guarantees: a live
\* timer fires
InitTimer == \E raw \in PersistedUi : Constructed(raw, DataSeeds, MaxTimerCalls)

SpecTimer == InitTimer /\ [][NextData]_vars /\ WF_vars(TimerFires)

\* reload, confirm, delete and undo while every load request succeeds
InitUndo == Constructed(<<>>, DataSeeds, MaxUndoCalls)

NextUndo ==
    \/ LoadWith([ok |-> TRUE, err |-> NoErr])
    \/ \E id \in KnownIds : Confirm(id)
    \/ \E id \in KnownIds : Delete(id)
    \/ UndoDelete
    \/ LoadSucceeds
    \/ ConfirmSucceeds
    \/ ConfirmFails
    \/ DeleteSucceeds
    \/ DeleteFails
    \/ TimerFires

SpecUndo == InitUndo /\ [][NextUndo]_vars

\* reloads that succeed, around deletes, undos and paging, all within the
\* undo window, by a store that restored one booking per page
InitReload == Constructed(SavedUi, Seeds, MaxReloadCalls)

NextReload ==
    \/ LoadWith([ok |-> TRUE, err |-> NoErr])
    \/ \E id \in KnownIds : Delete(id)
    \/ UndoDelete
    \/ NextPage
    \/ LoadSucceeds
    \/ DeleteSucceeds
    \/ DeleteFails

SpecReload == InitReload /\ [][NextReload]_vars

\* paging through a loaded list, by a store that restored one booking per page
InitPaging == Constructed(SavedUi, Seeds, MaxPagingCalls)

NextPaging ==
    \/ LoadWith([ok |-> TRUE, err |-> NoErr])
    \/ \E p \in Pages : SetPage(p)
    \/ NextPage
    \/ PrevPage
    \/ \E n \in PageSizes : SetPageSize(n)
    \/ \E f \in Filters : SetFilter(f)
    \/ LoadSucceeds

SpecPaging == InitPaging /\ [][NextPaging]_vars

\* the constructor on whatever localStorage holds, then the setters that save
InitRestore ==
    \/ \E raw \in StoredOther : Constructed(raw, Seeds, MaxRestoreCalls)
    \/ \E c \in StoredChoices : Constructed(StoredObject(c), Seeds, MaxRestoreCalls)

NextRestore ==
    \/ \E q \in Queries : SetQuery(q)
    \/ \E k \in SortKeys : SetSort(k)
    \/ \E n \in PageSizes : SetPageSize(n)
    \/ \E f \in Filters : SetFilter(f)

SpecRestore == InitRestore /\ [][NextRestore]_vars

\* deletes of loaded bookings, never undone, while every load succeeds
InitDeletes == Constructed(<<>>, Seeds, MaxDeleteCalls)

NextDeletes ==
    \/ LoadWith([ok |-> TRUE, err |-> NoErr])
    \/ \E id \in KnownIds : Delete(id)
    \/ LoadSucceeds
    \/ DeleteSucceeds
    \/ DeleteFails
    \/ TimerFires

SpecDeletes == InitDeletes /\ [][NextDeletes]_vars

----------------------------------------------------------------------------
(* Properties *)

Fields == DOMAIN initialState

\* st' differs from st in no field outside `written`
OnlyWrites(written) == \A f \in Fields \ written : st'[f] = st[f]

Count(seq, b) == Cardinality({i \in DOMAIN seq : seq[i] = b})

CallbackOps ==
    {"loadTap", "loadCatch", "createNext", "createError", "confirmNext",
     "confirmError", "deleteCatch"}

\* the fields a completion callback is there to write
Writes(op) ==
    CASE op = "loadTap" -> {"serverItems", "loading"}
      [] op = "loadCatch" -> {"error", "loading"}
      [] op = "createNext" -> {"serverItems", "loading", "page"}
      [] op = "createError" -> {"error", "loading"}
      [] op = "confirmNext" -> {"serverItems"}
      [] op = "confirmError" -> {"error"}
      [] op = "deleteCatch" -> {"localItems", "serverItems", "pendingDelete", "error"}

\* C1: in every reachable state the ids of localItems and the ids of
\* serverItems are disjoint.
C1_Partition == IdsOf(st.localItems) \cap IdsOf(st.serverItems) = {}

\* C2: when the delete request of a booking that was in serverItems fails, the
\* state right after the rollback has the ids in items that the snapshot taken
\* by delete(id) had, id is in serverItems again, pendingDelete is null and
\* error is the failure message.
C2_DeleteRollback ==
    [][ev'.op = "deleteCatch" =>
        LET r == ev'.req[1]
        IN  /\ IdsOf(Items(st')) = IdsOf(Items(r.s0[1]))
            /\ r.id \in IdsOf(r.s0[1].serverItems)
            /\ r.id \in IdsOf(st'.serverItems)
            /\ st'.pendingDelete = <<>>
            /\ st'.error = ErrMsg(r.err, "Delete failed")
            /\ st'.error # Null]_vars

C2_Witness ==
    /\ ev.op = "deleteCatch"
    /\ ev.id \in IdsOf(st.serverItems)
    /\ st.pendingDelete = <<>>
    /\ st.error = "network error"

\* C3: every completion callback builds the new state from the snapshot that
\* is current when it runs: it changes only the fields it is there to write and
\* drops no booking that another operation has put into items meanwhile.
C3_FromCurrentSnapshot ==
    [][ev'.op \in CallbackOps =>
        /\ OnlyWrites(Writes(ev'.op))
        /\ ev'.op # "loadTap" => IdsOf(Items(st)) \subseteq IdsOf(Items(st'))]_vars


\* C4: delete(b.id) followed at once by undoDelete() leaves exactly one
\* booking equal to b in items, for every booking b that was in items, and
\* leaves pendingDelete null.
C4_UndoRoundTrip ==
    [][(ev.op = "delete" /\ ev'.op = "undoDelete") =>
        /\ \A b \in ev.was : Count(Items(st'), b) = 1
        /\ st'.pendingDelete = <<>>]_vars

TimerIds == 1..MaxTimerCalls

PendingOn(t) == st.pendingDelete # <<>> /\ st.pendingDelete[1].timerId = t

C6_LoadFailKeepsItems ==
    [][ev'.op = "loadCatch" =>
        /\ st'.localItems = st.localItems
        /\ st'.serverItems = st.serverItems
        /\ st'.loading = FALSE
        /\ st'.error = ErrMsg(ev'.req[1].err, "Unknown error")
        /\ st'.error # Null]_vars

C6_Witness ==
    /\ ev.op = "loadCatch"
    /\ st.serverItems # <<>>
    /\ st.loading = FALSE
    /\ st.error = "Unknown error"

\* C7: a successful load makes serverItems the returned sequence and loading
\* false, and leaves localItems, pendingDelete, page, filter, sort and query
\* as they were; the bookings of localItems survive the reload.
C7_LoadSuccessFrame ==
    [][ev'.op = "loadTap" =>
        /\ st'.serverItems = ev'.req[1].result
        /\ st'.loading = FALSE
        /\ OnlyWrites({"serverItems", "loading"})]_vars

\* a reload on page 2 with a booking in localItems
C7_Witness ==
    /\ ev.op = "loadTap"
    /\ st.localItems # <<>>
    /\ st.serverItems = ev.req[1].result
    /\ st.page > 1
    /\ st.filter # "ALL"

\* C8: create is not optimistic.  Its synchronous part writes only loading and
\* error; its success puts the returned booking at the head of serverItems,
\* page at 1 and loading at false; its failure leaves both collections alone,
\* sets loading to false and error to a message.
C8_CreateNotOptimistic ==
    [][/\ ev'.op = "create" =>
            /\ OnlyWrites({"loading", "error"})
            /\ st'.loading = TRUE
       /\ ev'.op = "createNext" =>
            /\ st'.serverItems = <<ev'.req[1].result[1]>> \o st.serverItems
            /\ st'.localItems = st.localItems
            /\ st'.page = 1
            /\ st'.loading = FALSE
       /\ ev'.op = "createError" =>
            /\ st'.serverItems = st.serverItems
            /\ st'.localItems = st.localItems
            /\ st'.loading = FALSE
            /\ st'.error = ErrMsg(ev'.req[1].err, "Create failed")
            /\ st'.error # Null]_vars

C8_Witness ==
    /\ ev.op = "createNext"
    /\ Len(st.serverItems) > 1
    /\ st.serverItems[1] = ev.req[1].result[1]
    /\ st.page = 1
    /\ st.loading = FALSE

\* C9: confirm(id) on a booking of serverItems makes its status CONFIRMED at
\* once, and a confirm request that fails writes error and nothing else, so
\* the status stays CONFIRMED.
C9_ConfirmFailureKept ==
    [][/\ (ev'.op = "confirm" /\ ev'.id \in IdsOf(st.serverItems)) =>
            \A b \in WithId(st'.serverItems, ev'.id) : b.status = "CONFIRMED"
       /\ ev'.op = "confirmError" =>
            /\ OnlyWrites({"error"})
            /\ st'.error = ErrMsg(ev'.req[1].err, "Confirm failed")
            /\ st'.error # Null]_vars

C9_Witness ==
    /\ ev.op = "confirmError"
    /\ st.error = "Confirm failed"
    /\ \E b \in WithId(st.serverItems, ev.id) : b.status = "CONFIRMED"

\* the requests of this kind and id that the step has added to those in flight
Issued(kind, id) ==
    {r \in BagToSet(inflight') :
        /\ r.kind = kind
        /\ r.id = id
        /\ CopiesIn(r, inflight') = CopiesIn(r, inflight) + 1}

\* C10: confirm(id) and delete(id) send a request for id exactly when id is in
\* serverItems as they are called; for an id that is only in localItems, or in
\* neither collection, nothing is sent.
C10_RequestIffServerItem ==
    [][ev'.op \in {"confirm", "delete"} =>
        IF ev'.id \in IdsOf(st.serverItems)
        THEN /\ Issued(ev'.op, ev'.id) # {}
             /\ BagCardinality(inflight') = BagCardinality(inflight) + 1
        ELSE inflight' = inflight]_vars

\* a booking that undoDelete has put into localItems is deleted with no request
C10_Witness ==
    /\ ev.op = "delete"
    /\ ev.was # {}
    /\ st.pendingDelete # <<>>
    /\ \A r \in BagToSet(inflight) : r.kind # "delete"

\* C11: undoDelete() with a pending delete puts the pending booking at the
\* head of localItems, leaves serverItems and every other field alone, sets
\* pendingDelete to null and page to 1 and cancels the expiry timer; a timer
\* that is no longer live never becomes live again, so it cannot fire.  With no
\* pending delete undoDelete() changes nothing.
C11_UndoDelete ==
    /\ [][ev'.op = "undoDelete" =>
            IF st.pendingDelete = <<>>
            THEN UNCHANGED <<st, storage, timers, nextTimer, inflight>>
            ELSE LET pd == st.pendingDelete[1]
                 IN  /\ st'.localItems = <<pd.booking>> \o st.localItems
                     /\ st'.serverItems = st.serverItems
                     /\ st'.pendingDelete = <<>>
                     /\ st'.page = 1
                     /\ pd.timerId \notin timers'
                     /\ OnlyWrites({"localItems", "pendingDelete", "page"})]_vars
    /\ [][\A t \in 1..(nextTimer - 1) : t \notin timers => t \notin timers']_vars

\* a second booking has been undone onto the head of localItems
C11_Witness ==
    /\ ev.op = "undoDelete"
    /\ ev.was # {}
    /\ Len(st.localItems) = 2
    /\ st.localItems[1] \in ev.was
    /\ st.pendingDelete = <<>>
    /\ st.page = 1

Flip(dir) == IF dir = "ASC" THEN "DESC" ELSE "ASC"

\* C12: setSort(key) on a state whose sortKey is key flips sortDir and keeps
\* sortKey; on a state whose sortKey differs it sets sortKey to key and sortDir
\* to DESC.  Two successive calls with the same key therefore end on that key
\* with the direction opposite to the one after the first call.
C12_SortToggle ==
    [][ev'.op = "setSort" =>
        /\ st'.sortKey = ev'.arg
        /\ st'.sortDir = IF st.sortKey = ev'.arg THEN Flip(st.sortDir) ELSE "DESC"
        /\ (ev.op = "setSort" /\ ev.arg = ev'.arg) =>
              /\ st.sortKey = ev'.arg
              /\ st'.sortDir = Flip(st.sortDir)]_vars

\* a store constructed with the default sort (SCHEDULED_AT, DESC) is on
\* (TOTAL, ASC): setSort('TOTAL') has been called twice
C12_Witness ==
    /\ ev.op = "setSort"
    /\ ev.arg = "TOTAL"
    /\ st.sortKey = "TOTAL"
    /\ st.sortDir = "ASC"
    /\ st.pageSize = InitialPageSize
    /\ st.filter = "ALL"

SetterOps == {"setQuery", "setFilter", "setSort", "setPageSize"}

UiFields == {"filter", "sortKey", "sortDir", "pageSize", "query"}

\* C13: each of setQuery, setFilter, setSort and setPageSize leaves page at 1
\* and the persisted blob equal to the filter, sortKey, sortDir, pageSize and
\* query of the state right after the call, and changes neither item
\* collection nor pendingDelete.
C13_SettersResetAndPersist ==
    [][ev'.op \in SetterOps =>
        /\ st'.page = 1
        /\ storage' # <<>>
        /\ storage'[1].json = "object"
        /\ \A f \in UiFields : storage'[1][f].v = st'[f]
        /\ st'.localItems = st.localItems
        /\ st'.serverItems = st.serverItems
        /\ st'.pendingDelete = st.pendingDelete]_vars

C13_Witness ==
    /\ ev.op = "setFilter"
    /\ st.filter = "CONFIRMED"
    /\ st.page = 1
    /\ st.serverItems # <<>>
    /\ storage # <<>>
    /\ storage[1].filter.v = "CONFIRMED"

\* C14: after nextPage() page lies in [1, totalPages], for the total page
\* count of the state in which nextPage was called; after prevPage() page is
\* at least 1 and is the previous page minus one, unless the previous page was
\* 1.  Both write page only.
C14_PageClamp ==
    [][/\ ev'.op = "nextPage" =>
            /\ 1 <= st'.page
            /\ st'.page <= TotalPages(st)
            /\ OnlyWrites({"page"})
       /\ ev'.op = "prevPage" =>
            /\ st'.page >= 1
            /\ st'.page = IF st.page = 1 THEN 1 ELSE st.page - 1
            /\ OnlyWrites({"page"})]_vars

\* nextPage() has stopped on the last of two pages
C14_Witness ==
    /\ ev.op = "nextPage"
    /\ TotalPages(st) = 2
    /\ st.page = 2

RECURSIVE PagesFrom(_, _)
\* the pages p, p + 1, ..., totalPages of the state s, one after the other
PagesFrom(s, p) ==
    IF p > TotalPages(s) THEN <<>>
    ELSE PagedSortedVisibleItems([s EXCEPT !.page = p]) \o PagesFrom(s, p + 1)

\* C15: the pages 1, 2, ..., totalPages of pagedSortedVisibleItems, put one
\* after the other, are sortedVisibleItems: the same bookings in the same
\* order, none twice and none missing.
C15_PaginationCoverage == PagesFrom(st, 1) = SortedVisibleItems(st)

\* three visible bookings on two pages, the last page partly filled
C15_Witness ==
    /\ Len(SortedVisibleItems(st)) = 3
    /\ st.pageSize = 2
    /\ TotalPages(st) = 2
    /\ Len(PagedSortedVisibleItems([st EXCEPT !.page = 2])) = 1

\* C16: calling setFilter, setQuery or setSort a second time with the argument
\* just used, with no step in between, leaves sortedVisibleItems as it was
\* after the first call.
C16_SameArgumentIdempotent ==
    [][(ev.op \in {"setFilter", "setQuery", "setSort"} /\ ev'.op = ev.op /\ ev'.arg = ev.arg) =>
        SortedVisibleItems(st') = SortedVisibleItems(st)]_vars

\* C16 as amended: a second setFilter or setQuery with the argument just used
\* leaves the state, and so sortedVisibleItems, as it was after the first
\* call; a second setSort with the key just used keeps the key and the visible
\* bookings and flips the direction, so sortedVisibleItems is then ordered the
\* opposite way.
C16_FilterQueryIdempotent ==
    [][/\ (ev.op \in {"setFilter", "setQuery"} /\ ev'.op = ev.op /\ ev'.arg = ev.arg) =>
            /\ st' = st
            /\ storage' = storage
            /\ SortedVisibleItems(st') = SortedVisibleItems(st)
       /\ (ev.op = "setSort" /\ ev'.op = "setSort" /\ ev'.arg = ev.arg) =>
            /\ st'.sortKey = st.sortKey
            /\ st'.sortDir = Flip(st.sortDir)
            /\ VisibleItems(st') = VisibleItems(st)
            /\ \A i, j \in DOMAIN SortedVisibleItems(st') :
                  i < j => Compare(SortedVisibleItems(st')[i], SortedVisibleItems(st')[j],
                                   st.sortKey, st.sortDir) >= 0]_vars

\* the second setSort('TOTAL') has turned two loaded bookings from descending
\* to ascending total
C16_Witness ==
    /\ ev.op = "setSort"
    /\ ev.arg = "TOTAL"
    /\ st.sortDir = "ASC"
    /\ st.pageSize = InitialPageSize
    /\ Len(SortedVisibleItems(st)) = 2
    /\ SortedVisibleItems(st)[1].totalCad < SortedVisibleItems(st)[2].totalCad

NumberWith(seq, status) == Cardinality({i \in DOMAIN seq : seq[i].status = status})

\* the booking's name and address contain the trimmed, lower-cased query
MatchesQuery(b, query) ==
    Includes(ToLowerCase(b.customerName \o <<" ">> \o b.address), ToLowerCase(Trim(query)))

\* C17: counts is the number of bookings in localItems ++ serverItems, the
\* number of those with status NEW and the number with status CONFIRMED;
\* setFilter and setQuery never change counts; visibleItems after setFilter(f)
\* with f other than ALL is the bookings of items with status f that match the
\* query, in the order of items.
C17_CountsUnfiltered ==
    /\ [](/\ Counts(st).all = Len(Items(st))
          /\ Counts(st).new = NumberWith(Items(st), "NEW")
          /\ Counts(st).confirmed = NumberWith(Items(st), "CONFIRMED"))
    /\ [][/\ ev'.op \in {"setFilter", "setQuery"} => Counts(st') = Counts(st)
          /\ (ev'.op = "setFilter" /\ ev'.arg # "ALL") =>
                VisibleItems(st') =
                    SelectSeq(Items(st'),
                              LAMBDA b : b.status = ev'.arg /\ MatchesQuery(b, st'.query))]_vars

\* one NEW and one CONFIRMED booking under the filter CONFIRMED
C17_Witness ==
    /\ ev.op = "setFilter"
    /\ ev.arg = "CONFIRMED"
    /\ Counts(st) = [all |-> 2, new |-> 1, confirmed |-> 1]
    /\ Len(VisibleItems(st)) = 1
    /\ VisibleItems(st)[1].status = "CONFIRMED"

\* what makes a stored field valid
Valid(f, x) ==
    CASE f = "filter" -> x.t = "string" /\ x.v \in {"ALL", "NEW", "CONFIRMED"}
      [] f = "sortKey" -> x.t = "string" /\ x.v \in {"SCHEDULED_AT", "TOTAL"}
      [] f = "sortDir" -> x.t = "string" /\ x.v \in {"ASC", "DESC"}
      [] f = "pageSize" -> x.t = "number" /\ x.v > 0
      [] f = "query" -> x.t = "string"

\* C18: the store is constructed whatever localStorage holds; each stored
\* field that is valid is applied and each invalid or missing one keeps its
\* default, independently of the others; absent or unparsable data leaves the
\* initial state as it is; a blob written by saveUiState restores to the five
\* values that were saved.
C18_RestoreFieldwise ==
    /\ \A raw \in StoredOther : LoadUiState(initialState, raw).page = 1
    /\ \A c \in StoredChoices : LoadUiState(initialState, StoredObject(c)).page = 1
    /\ [](ev.op = "init" =>
            IF storage = <<>> \/ storage[1].json \in {"garbage", "null"}
            THEN st = initialState
            ELSE /\ \A f \in UiFields :
                       st[f] = IF Valid(f, storage[1][f]) THEN storage[1][f].v
                               ELSE initialState[f]
                 /\ \A f \in Fields \ UiFields : st[f] = initialState[f])
    /\ [][ev'.op \in SetterOps =>
            \A f \in UiFields : LoadUiState(initialState, storage')[f] = st'[f]]_vars

\* a stored filter and query are applied next to a page size of 0 or -1, which
\* is not
C18_Witness ==
    /\ ev.op = "init"
    /\ storage # <<>>
    /\ storage[1].json = "object"
    /\ storage[1].pageSize.t = "number"
    /\ st.pageSize = InitialPageSize
    /\ st.filter = "NEW"
    /\ st.query = <<"m", "a">>
    /\ st.sortKey = "SCHEDULED_AT"

\* C19: an expiry timer that fires clears pendingDelete only when the slot
\* holds the booking the timer was started for: while a delete is pending, no
\* timer other than its own is live.
C19_OnlyOwnTimerLive ==
    st.pendingDelete # <<>> => timers \subseteq {st.pendingDelete[1].timerId}

\* a load response that is still to come holds the booking
LateLoadHas(id) == \E r \in Pending("load", TRUE) : SomeId(r.result, id)

\* the delete request of the booking is still to fail
OwnDeleteToFail(id) == \E r \in Pending("delete", FALSE) : r.id = id

\* C20: a booking of serverItems that delete(id) has removed and the backend
\* has deleted stays out of items, whatever other deletes are issued and
\* however their requests complete: once id is in neither items nor the
\* backend, no load response holding it is still to come and no delete request
\* of its own is still to fail, no step puts it back into items.  In
\* SpecDeletes nothing is undone or created, and a booking leaves the backend
\* only by a delete request that succeeds.
C20_DeletedStaysGone ==
    [][\A id \in KnownIds :
          (/\ id \notin IdsOf(db)
           /\ id \notin IdsOf(Items(st))
           /\ ~LateLoadHas(id)
           /\ ~OwnDeleteToFail(id)) => id \notin IdsOf(Items(st'))]_vars

\* the load, create and delete requests that have not completed
Outstanding == {r \in BagToSet(inflight) : r.kind \in {"load", "create", "delete"}}

\* C21: once every load and create request has completed and no delete
\* request is in flight, loading is false.
C21_LoadingOnlyWhileOutstanding == Outstanding = {} => st.loading = FALSE

\* C22: in every state reached without setPage, page lies in
\* [1, totalPages], so pagedSortedVisibleItems is non-empty whenever
\* sortedVisibleItems is, and pageRange has from <= to.
C22_PageInRange ==
    /\ 1 <= st.page
    /\ st.page <= TotalPages(st)
    /\ SortedVisibleItems(st) # <<>> => PagedSortedVisibleItems(st) # <<>>
    /\ PageRange(st).from <= PageRange(st).to

====
